---- MODULE Spec2Model ----
(***************************************************************************)
(* Model of comp_slab_models_image.py: the command-line front end          *)
(* (__main__) that resolves the model set and the (angle, tau, wave)       *)
(* sweep, and plot_imagegrid, which filters the model files that exist,    *)
(* loads, rotates and crops each image, derives the shared plotting range  *)
(* and writes or shows one figure per combination.                         *)
(*                                                                         *)
(* Python indices are kept 0-based where the code stores them (fileindxs,  *)
(* grid cells); positions in TLA+ sequences are 1-based.                   *)
(***************************************************************************)
EXTENDS Integers, Sequences, FiniteSets, TLC

\* ------------------------------------------------------------------------
\* Generic helpers
\* ------------------------------------------------------------------------

Range(s) == {s[k] : k \in DOMAIN s}

SetMin(S) == CHOOSE x \in S : \A y \in S : x <= y

SetMax(S) == CHOOSE x \in S : \A y \in S : x >= y

\* s[0:len(s)-1]
ButLast(s) == SubSeq(s, 1, Len(s) - 1)

\* ------------------------------------------------------------------------
\* __main__: vocabularies and argument resolution
\* ------------------------------------------------------------------------

good_angles == <<"000", "030", "060", "090", "120", "150", "180", "all">>

good_taus == <<"1e-2", "1e-1", "1e0", "1e1", "all">>

good_waves == <<"000.15", "000.53", "035.11", "151.99", "all">>

ModeFlags == {"stau", "nphot", "mscat", "econs", "nz", "wr", "minfs"}

\* The namespace argparse returns: one choice per axis, nine store_true flags.
ArgsSpace ==
    [angle : Range(good_angles), tau : Range(good_taus), wave : Range(good_waves),
     stau : BOOLEAN, nphot : BOOLEAN, mscat : BOOLEAN, econs : BOOLEAN,
     nz : BOOLEAN, wr : BOOLEAN, minfs : BOOLEAN, eps : BOOLEAN, png : BOOLEAN]

\* The slice forgotten: the 'all' sentinel stays in the list.
ExpandKeepAll(choice, good) == IF choice = "all" THEN good ELSE <<choice>>

\* angles = [args.angle]; if 'all' in angles: angles = good[0:len(good)-1]
Expand(choice, good) == IF choice = "all" THEN ButLast(good) ELSE <<choice>>

\* [dir + modname + '_slab_eff' for modname in modnames]
WithDir(dir, modnames) ==
    [k \in DOMAIN modnames |-> dir \o modnames[k] \o "_slab_eff"]

\* [modname + '/' + modname + '_slab_eff' for modname in modnames]
OwnDir(modnames) ==
    [k \in DOMAIN modnames |-> modnames[k] \o "/" \o modnames[k] \o "_slab_eff"]

\* Independent ifs in the place of the elif chain: the last set flag wins.
ModeLastWins(a) ==
    IF a.minfs THEN "minfs"
    ELSE IF a.wr THEN "wr"
    ELSE IF a.nz THEN "nz"
    ELSE IF a.econs THEN "econs"
    ELSE IF a.mscat THEN "mscat"
    ELSE IF a.nphot THEN "nphot"
    ELSE IF a.stau THEN "stau"
    ELSE "default"

\* The if/elif chain on the mode flags: the branch that is taken.
Mode(a) ==
    IF a.stau THEN "stau"
    ELSE IF a.nphot THEN "nphot"
    ELSE IF a.mscat THEN "mscat"
    ELSE IF a.econs THEN "econs"
    ELSE IF a.nz THEN "nz"
    ELSE IF a.wr THEN "wr"
    ELSE IF a.minfs THEN "minfs"
    ELSE "default"

\* What each branch assigns to moddisplaynames and imodnames.
ModelSets ==
    [stau |->
        [moddisplaynames |-> <<"DIRTY (Nz=400)", "DIRTY (Nz=200)", "DIRTY (Nz=100)",
                               "DIRTY (Nz=50)", "DIRTY (Nz=10)", "DIRTY (Nz=6)",
                               "DIRTY (Nz=3)">>,
         imodnames |-> WithDir("dirty_stau/",
                               <<"dirty_stau_0.00250", "dirty_stau_0.00500",
                                 "dirty_stau_0.01000", "dirty_stau_0.05000",
                                 "dirty_stau_0.10000", "dirty_stau_0.25000",
                                 "dirty_stau_1.00000">>)],
     nphot |->
        [moddisplaynames |-> <<"DIRTY (N=3.2e7)", "DIRTY (N=1e7)", "DIRTY (N=3.2e6)",
                               "DIRTY (N=1e6)", "DIRTY (N=3.2e5)">>,
         imodnames |-> WithDir("dirty_nphot/",
                               <<"dirty_nphot_3.2e7", "dirty_nphot_1e7",
                                 "dirty_nphot_3.2e6", "dirty_nphot_1e6",
                                 "dirty_nphot_3.2e5">>)],
     mscat |->
        [moddisplaynames |-> <<"DIRTY (mscat=5)", "DIRTY (mscat=1)">>,
         imodnames |-> WithDir("dirty_mscat/", <<"dirty_mscat_5", "dirty_mscat_1">>)],
     econs |->
        [moddisplaynames |-> <<"DIRTY (econs=0.001)", "DIRTY (econs=0.0032)",
                               "DIRTY (econs=0.01)", "DIRTY (econs=0.032)",
                               "DIRTY (econs=0.1)", "DIRTY (econs=0.32)",
                               "DIRTY (econs=1.0)">>,
         imodnames |-> WithDir("dirty_econs/",
                               <<"dirty_econs_0.001", "dirty_econs_0.0032",
                                 "dirty_econs_0.01", "dirty_econs_0.032",
                                 "dirty_econs_0.1", "dirty_econs_0.32",
                                 "dirty_econs_1.0">>)],
     nz |->
        [moddisplaynames |-> <<"SKIRT (Nz=400)", "SKIRT (Nz=200)", "SKIRT (Nz=100)",
                               "SKIRT (Nz=30)", "SKIRT (Nz=10)", "SKIRT (Nz=5)">>,
         imodnames |-> WithDir("skirtnz/",
                               <<"skirtnz400", "skirtnz200", "skirtnz100",
                                 "skirtnz030", "skirtnz010", "skirtnz005">>)],
     wr |->
        [moddisplaynames |-> <<"SKIRT (wr=1e8)", "SKIRT (wr=1e7)", "SKIRT (wr=1e6)",
                               "SKIRT (wr=1e5)", "SKIRT (wr=1e4)", "SKIRT (wr=1e3)">>,
         imodnames |-> WithDir("skirtwr/",
                               <<"skirtwr1e8", "skirtwr1e7", "skirtwr1e6",
                                 "skirtwr1e5", "skirtwr1e4", "skirtwr1e3">>)],
     minfs |->
        [moddisplaynames |-> <<"SKIRT (minfs=1)", "SKIRT (minfs=3)", "SKIRT (minfs=10)",
                               "SKIRT (minfs=30)", "SKIRT (minfs=100)",
                               "SKIRT (minfs=200)", "SKIRT (minfs=400)">>,
         imodnames |-> WithDir("skirtminfs/",
                               <<"skirtminfs001wr1e7", "skirtminfs003wr1e7",
                                 "skirtminfs010wr1e7", "skirtminfs030wr1e7",
                                 "skirtminfs100wr1e7", "skirtminfs200wr1e7",
                                 "skirtminfs400wr1e7">>)],
     default |->
        [moddisplaynames |-> <<"CRT", "DART-ray", "DIRTY", "Hyperion", "SKIRT",
                               "SOC", "TRADING">>,
         imodnames |-> OwnDir(<<"crt", "dartr", "dirty", "hyper", "skirt",
                                "SOC", "tradi">>)]]

\* The models to display.
ModelSet(a) == ModelSets[Mode(a)]

\* ------------------------------------------------------------------------
\* plot_imagegrid: pure parts
\* ------------------------------------------------------------------------

\* modname + '_t' + tau + '_i' + angle + 'a000_w' + wave + '.fits'
FitsName(modname, wave, tau, angle) ==
    modname \o "_t" \o tau \o "_i" \o angle \o "a000_w" \o wave \o ".fits"

ifilenamesOf(modnames, wave, tau, angle) ==
    [k \in DOMAIN modnames |-> FitsName(modnames[k], wave, tau, angle)]

\* 'slab_t' + tau + '_i' + angle + '_w' + wave + '_image_comp'
save_name(wave, tau, angle) ==
    "slab_t" \o tau \o "_i" \o angle \o "_w" \o wave \o "_image_comp"

\* A loop that stops at the first missing file instead of skipping it.
RECURSIVE KeptUntilMissing(_, _, _)
KeptUntilMissing(k, n, present) ==
    IF k > n \/ k \notin present THEN <<>>
    ELSE <<k>> \o KeptUntilMissing(k + 1, n, present)

\* The positions (1-based) of ifilenames whose file exists, in increasing
\* order: what the enumerate loop visits and keeps.
RECURSIVE KeptFrom(_, _, _)
KeptFrom(k, n, present) ==
    IF k > n THEN <<>>
    ELSE IF k \in present THEN <<k>> \o KeptFrom(k + 1, n, present)
    ELSE KeptFrom(k + 1, n, present)

\* divmod(i, 3)
DivMod3(i) == <<i \div 3, i % 3>>

\* The pair of divmod taken as (column, row).
GridCellTransposed(i) == [row |-> DivMod3(i)[2], col |-> DivMod3(i)[1]]

\* gs[divmod(fileindxs[i], 3)]: a GridSpec indexed by a pair is indexed by
\* (row, column).
GridCell(i) == [row |-> DivMod3(i)[1], col |-> DivMod3(i)[2]]

\* ------------------------------------------------------------------------
\* Images
\*
\* An image is the array np.squeeze(fits.getdata(cfile)) returns: its shape
\* (rows, cols) and pix, the set of values its pixels take inside the window
\* that the crop keeps (np.where, np.min and np.max look at nothing else).
\* ------------------------------------------------------------------------

Shapes == {<<300, 300>>, <<600, 600>>, <<300, 600>>, <<600, 300>>}

Image(shape, pix) == [rows |-> shape[1], cols |-> shape[2], pix |-> pix]

\* np.rot90(timage, 3): three quarter-turns exchange the two dimensions.
Rot90x3(im) == [rows |-> im.cols, cols |-> im.rows, pix |-> im.pix]

RotatedLabels == {"CRT", "SOC"}

\* if displaynames[i] in ['CRT','SOC']: timage = np.rot90(timage,3)
Oriented(label, im) == IF label \in RotatedLabels THEN Rot90x3(im) ELSE im

NoWindow == [r0 |-> 0, r1 |-> 0, c0 |-> 0, c1 |-> 0]

Window300 == [r0 |-> 9, r1 |-> 260, c0 |-> 45, c1 |-> 255]

Window600 == [r0 |-> 19, r1 |-> 520, c0 |-> 90, c1 |-> 510]

\* if timage.shape[0] == 300: ... elif timage.shape[0] == 600: ...
\* lead is shape[0] of the array the test is applied to.
CropWindow(lead) ==
    IF lead = 300 THEN Window300
    ELSE IF lead = 600 THEN Window600
    ELSE NoWindow

\* Length of the Python slice [lo:hi] of an axis of length n.
SliceLen(lo, hi, n) ==
    LET a == IF lo < n THEN lo ELSE n
        b == IF hi < n THEN hi ELSE n
    IN IF b > a THEN b - a ELSE 0

\* timage[r0:r1, c0:c1]; an array no window applies to is left as it is.
Crop(im, w) ==
    IF w = NoWindow THEN im
    ELSE [rows |-> SliceLen(w.r0, w.r1, im.rows),
          cols |-> SliceLen(w.c0, w.c1, im.cols),
          pix |-> im.pix]

\* The size test placed before the rotation.
WindowBeforeRotation(label, im) == CropWindow(im.rows)

\* The rotate-then-crop steps of the loading loop, and the window they use.
WindowUsed(label, im) == CropWindow(Oriented(label, im).rows)

Prepared(label, im) == Crop(Oriented(label, im), WindowUsed(label, im))

\* <= in the place of <: the maximum is kept.
gindxsWithMax(pix) == {p \in pix : p > 0 /\ p <= SetMax(pix)}

\* np.where((timage[:] > 0.) & (timage[:] < np.max(timage[:])))
gindxsOf(pix) == {p \in pix : p > 0 /\ p < SetMax(pix)}

\* (np.min(timage[gindxs]), np.max(timage[gindxs]))
MinMax(pix) == <<SetMin(gindxsOf(pix)), SetMax(gindxsOf(pix))>>

\* ------------------------------------------------------------------------
\* np.median of a list of numbers, doubled so that it stays an integer: the
\* middle element of the sorted list, or the mean of the two middle ones.
\* ------------------------------------------------------------------------

RECURSIVE Insert(_, _)
Insert(x, s) ==
    IF s = <<>> THEN <<x>>
    ELSE IF x <= Head(s) THEN <<x>> \o s
    ELSE <<Head(s)>> \o Insert(x, Tail(s))

RECURSIVE Sorted(_)
Sorted(s) == IF s = <<>> THEN <<>> ELSE Insert(Head(s), Sorted(Tail(s)))

Median2(s) ==
    LET t == Sorted(s)
        n == Len(t)
    IN IF n % 2 = 1 THEN 2 * t[(n + 1) \div 2]
       ELSE t[n \div 2] + t[(n \div 2) + 1]

\* The sub-sequence of s at the positions in idx, in increasing order.
RECURSIVE Pick(_, _, _)
Pick(s, idx, k) ==
    IF k > Len(s) THEN <<>>
    ELSE IF k \in idx THEN <<s[k]>> \o Pick(s, idx, k + 1)
    ELSE Pick(s, idx, k + 1)

\* ------------------------------------------------------------------------
\* State
\* ------------------------------------------------------------------------

VARIABLES
    pc,               \* where the program is
    args,             \* parser.parse_args()
    angles, taus, waves,          \* the three expanded lists
    imodnames, moddisplaynames,   \* the selected model set
    ia, it, iw,       \* positions of the three nested for loops (1-based)
    calls,            \* the (angle, tau, wave) of every plot_imagegrid call so far
    ifilenames, filenames, displaynames, fileindxs,   \* locals of plot_imagegrid
    isfile,           \* positions of ifilenames where os.path.isfile was True
    fig,              \* the figure of the current call (0: none yet)
    ax,               \* grid cell of each panel
    i,                \* position of the loading loop (1-based)
    raw,              \* the arrays read so far, as read
    windows,          \* the crop window applied to each of them
    all_images,       \* the cube: its (rows, cols) and the images stored in it
    minmax_vals,      \* the rows of minmax_vals that were assigned
    nopos,            \* positions reported as having no positive values
    plot_minmax,      \* [nan, vmin2, vmax2]: the shared range, doubled
    titles,           \* title set on each panel by the drawing loop
    figs, nfigs,      \* open figures, and how many were ever created
    saved,            \* file names passed to fig.savefig, in order
    shown,            \* number of pyplot.show() calls
    stdout,           \* the 'no files present' diagnostic, when printed
    exit_code         \* "none" while running, else the process exit status

main_vars == <<args, angles, taus, waves, imodnames, moddisplaynames>>

loop_vars == <<ia, it, iw>>

frame_vars == <<ifilenames, filenames, displaynames, fileindxs, isfile, fig, ax, i, raw,
                windows, all_images, minmax_vals, nopos, plot_minmax, titles>>

world_vars == <<figs, nfigs, saved, shown, stdout, exit_code>>

vars == <<pc, main_vars, loop_vars, calls, frame_vars, world_vars>>

NoCube == [rows |-> 0, cols |-> 0, images |-> <<>>]

NoRange == [nan |-> FALSE, vmin2 |-> 0, vmax2 |-> 0]

\* The locals of plot_imagegrid before the call.
NoFrame ==
    /\ ifilenames = <<>>
    /\ filenames = <<>>
    /\ displaynames = <<>>
    /\ fileindxs = <<>>
    /\ isfile = {}
    /\ fig = 0
    /\ ax = <<>>
    /\ i = 0
    /\ raw = <<>>
    /\ windows = <<>>
    /\ all_images = NoCube
    /\ minmax_vals = <<>>
    /\ nopos = {}
    /\ plot_minmax = NoRange
    /\ titles = <<>>

\* The locals of plot_imagegrid are gone once it returned.
DropFrame ==
    /\ ifilenames' = <<>>
    /\ filenames' = <<>>
    /\ displaynames' = <<>>
    /\ fileindxs' = <<>>
    /\ isfile' = {}
    /\ fig' = 0
    /\ ax' = <<>>
    /\ i' = 0
    /\ raw' = <<>>
    /\ windows' = <<>>
    /\ all_images' = NoCube
    /\ minmax_vals' = <<>>
    /\ nopos' = {}
    /\ plot_minmax' = NoRange
    /\ titles' = <<>>

\* The process right after parse_args() returned a namespace of A.
InitWith(A) ==
    /\ pc = "main"
    /\ args \in A
    /\ angles = <<>> /\ taus = <<>> /\ waves = <<>>
    /\ imodnames = <<>> /\ moddisplaynames = <<>>
    /\ ia = 0 /\ it = 0 /\ iw = 0
    /\ calls = <<>>
    /\ NoFrame
    /\ figs = {} /\ nfigs = 0
    /\ saved = <<>> /\ shown = 0
    /\ stdout = <<>>
    /\ exit_code = "none"

\* ------------------------------------------------------------------------
\* __main__
\* ------------------------------------------------------------------------

\* Expansion of 'all' on the three axes and selection of the model set.
Resolve ==
    /\ pc = "main"
    /\ angles' = Expand(args.angle, good_angles)
    /\ taus' = Expand(args.tau, good_taus)
    /\ waves' = Expand(args.wave, good_waves)
    /\ imodnames' = ModelSet(args).imodnames
    /\ moddisplaynames' = ModelSet(args).moddisplaynames
    /\ ia' = 1 /\ it' = 1 /\ iw' = 1
    /\ pc' = "loop"
    /\ UNCHANGED <<args, calls, frame_vars, world_vars>>

\* The loop positions after one more iteration of the innermost loop:
\* for angle in angles: for tau in taus: for wave in waves.
NextPos ==
    IF iw < Len(waves) THEN <<ia, it, iw + 1>>
    ELSE IF it < Len(taus) THEN <<ia, it + 1, 1>>
    ELSE <<ia + 1, 1, 1>>

\* The three loops are exhausted: the script ends.
Finish ==
    /\ pc = "loop"
    /\ ia > Len(angles)
    /\ pc' = "done"
    /\ exit_code' = "0"
    /\ UNCHANGED <<main_vars, loop_vars, calls, frame_vars,
                   figs, nfigs, saved, shown, stdout>>

\* ------------------------------------------------------------------------
\* plot_imagegrid
\* ------------------------------------------------------------------------

\* A return in the place of exit(0): only the combination is abandoned.
OnNoFilesReturn == [pc |-> "close", exit_code |-> "none"]

\* exit(0) after the two prints: the process ends with status 0.
OnNoFiles == [pc |-> "exited", exit_code |-> "0"]

\* Entry of plot_imagegrid for the current loop position, up to the
\* n_files == 0 test. present: the positions of ifilenames for which
\* os.path.isfile answers True.
Filter(present) ==
    /\ pc = "loop"
    /\ ia <= Len(angles)
    /\ present \subseteq 1..Len(imodnames)
    /\ LET angle == angles[ia]
           tau == taus[it]
           wave == waves[iw]
           names == ifilenamesOf(imodnames, wave, tau, angle)
           kept == KeptFrom(1, Len(names), present)
       IN /\ calls' = Append(calls, <<angle, tau, wave>>)
          /\ ifilenames' = names
          /\ filenames' = [k \in DOMAIN kept |-> names[kept[k]]]
          /\ displaynames' = [k \in DOMAIN kept |-> moddisplaynames[kept[k]]]
          /\ fileindxs' = [k \in DOMAIN kept |-> kept[k] - 1]
          /\ isfile' = present
          /\ IF Len(kept) = 0
             THEN /\ stdout' = <<"no files present", names>>
                  /\ exit_code' = OnNoFiles.exit_code
                  /\ pc' = OnNoFiles.pc
             ELSE /\ pc' = "setup"
                  /\ UNCHANGED <<stdout, exit_code>>
    /\ UNCHANGED <<main_vars, loop_vars, fig, ax, i, raw, windows, all_images,
                   minmax_vals, nopos, plot_minmax, titles,
                   figs, nfigs, saved, shown>>

\* pyplot.subplots, the GridSpec and one subplot per kept file.
SetupFigure ==
    /\ pc = "setup"
    /\ nfigs' = nfigs + 1
    /\ fig' = nfigs + 1
    /\ figs' = figs \cup {nfigs + 1}
    /\ ax' = [k \in DOMAIN fileindxs |-> GridCell(fileindxs[k])]
    /\ i' = 1
    /\ pc' = "load"
    /\ UNCHANGED <<main_vars, loop_vars, calls, ifilenames, filenames, displaynames,
                   fileindxs, isfile, raw, windows, all_images, minmax_vals, nopos,
                   plot_minmax, titles, saved, shown, stdout, exit_code>>

\* One iteration of the loading loop. im: what fits.getdata returns for
\* filenames[i], squeezed. Storing an image whose shape differs from the
\* cube's raises ValueError, which nothing catches.
LoadImage(im) ==
    /\ pc = "load"
    /\ i <= Len(filenames)
    /\ LET w == WindowUsed(displaynames[i], im)
           timage == Prepared(displaynames[i], im)
           cube == IF i = 1
                   THEN [rows |-> timage.rows, cols |-> timage.cols, images |-> <<>>]
                   ELSE all_images
       IN /\ raw' = Append(raw, im)
          /\ windows' = Append(windows, w)
          /\ IF timage.rows # cube.rows \/ timage.cols # cube.cols
             THEN /\ pc' = "crashed"
                  /\ exit_code' = "1"
                  /\ all_images' = cube
                  /\ UNCHANGED <<i, minmax_vals, nopos>>
             ELSE /\ all_images' = [cube EXCEPT !.images = Append(@, timage)]
                  /\ IF gindxsOf(timage.pix) # {}
                     THEN /\ minmax_vals' = [k \in (DOMAIN minmax_vals) \cup {i} |->
                                               IF k = i THEN MinMax(timage.pix)
                                               ELSE minmax_vals[k]]
                          /\ nopos' = nopos
                     ELSE /\ nopos' = nopos \cup {i}
                          /\ minmax_vals' = minmax_vals
                  /\ i' = i + 1
                  /\ UNCHANGED <<pc, exit_code>>
    /\ UNCHANGED <<main_vars, loop_vars, calls, ifilenames, filenames, displaynames,
                   fileindxs, isfile, fig, ax, plot_minmax, titles,
                   figs, nfigs, saved, shown, stdout>>

\* The rows of minmax_vals as line 89 reads them. np.empty leaves a row that
\* was never assigned with whatever the memory held: garb gives that content.
RowsRead(mm, n, garb) ==
    [k \in 1..n |-> IF k \in DOMAIN mm THEN mm[k] ELSE garb[k]]

\* gindxs, = np.where(minmax_vals[:,0] > 0)
\* plot_minmax = [np.median(minmax_vals[gindxs,0]), np.median(minmax_vals[gindxs,1])]
\* The median of an empty selection is nan.
PlotMinMax(mm, n, garb) ==
    LET rows == RowsRead(mm, n, garb)
        gindxs == {k \in 1..n : rows[k][1] > 0}
        col0 == [k \in 1..n |-> rows[k][1]]
        col1 == [k \in 1..n |-> rows[k][2]]
    IN IF gindxs = {} THEN [nan |-> TRUE, vmin2 |-> 0, vmax2 |-> 0]
       ELSE [nan |-> FALSE,
             vmin2 |-> Median2(Pick(col0, gindxs, 1)),
             vmax2 |-> Median2(Pick(col1, gindxs, 1))]

\* After the loading loop: the shared range, then imshow and set_title on
\* every panel, the caption, the colorbar and the layout. LogNorm rejects
\* vmin > vmax with ValueError; what it does with a nan range depends on the
\* matplotlib release (rejects: the exception ends the process).
Render(garb, rejects) ==
    /\ pc = "load"
    /\ i > Len(filenames)
    /\ DOMAIN garb = (1..Len(filenames)) \ DOMAIN minmax_vals
    /\ LET pm == PlotMinMax(minmax_vals, Len(filenames), garb)
       IN /\ plot_minmax' = pm
          /\ IF (pm.nan /\ rejects) \/ (~pm.nan /\ pm.vmin2 > pm.vmax2)
             THEN /\ pc' = "crashed"
                  /\ exit_code' = "1"
                  /\ titles' = titles
             ELSE /\ pc' = "output"
                  /\ titles' = displaynames
                  /\ exit_code' = exit_code
    /\ UNCHANGED <<main_vars, loop_vars, calls, ifilenames, filenames, displaynames,
                   fileindxs, isfile, fig, ax, i, raw, windows, all_images, minmax_vals,
                   nopos, figs, nfigs, saved, shown, stdout>>

\* Two independent ifs in the place of if/elif: both flags write both kinds.
OutputsOfBothFlags(name, save_png, save_eps) ==
    (IF save_png THEN <<name \o ".png", name \o "_small.png">> ELSE <<>>)
    \o (IF save_eps THEN <<name \o ".eps">> ELSE <<>>)

\* The names handed to fig.savefig for the two flags ("show": pyplot.show()).
Outputs(name, save_png, save_eps) ==
    IF save_png THEN <<name \o ".png", name \o "_small.png">>
    ELSE IF save_eps THEN <<name \o ".eps">>
    ELSE <<>>

\* if save_png: ... elif save_eps: ... else: pyplot.show()
Output ==
    /\ pc = "output"
    /\ LET c == calls[Len(calls)]
           out == Outputs(save_name(c[3], c[2], c[1]), args.png, args.eps)
       IN /\ saved' = saved \o out
          /\ shown' = IF args.png \/ args.eps THEN shown ELSE shown + 1
    /\ pc' = "close"
    /\ UNCHANGED <<main_vars, loop_vars, calls, frame_vars,
                   figs, nfigs, stdout, exit_code>>

\* The close placed inside the two saving branches only.
ClosedAfterSave(fs, f) == IF args.png \/ args.eps THEN fs \ {f} ELSE fs

\* pyplot.close(fig)
Closed(fs, f) == fs \ {f}

\* pyplot.close(fig), the return, and the step of the enclosing for loops.
Close ==
    /\ pc = "close"
    /\ figs' = Closed(figs, fig)
    /\ ia' = NextPos[1] /\ it' = NextPos[2] /\ iw' = NextPos[3]
    /\ DropFrame
    /\ pc' = "loop"
    /\ UNCHANGED <<main_vars, calls, nfigs, saved, shown, stdout, exit_code>>

\* ------------------------------------------------------------------------
\* Inputs and specifications
\* ------------------------------------------------------------------------

MaxPix == 3

\* Pixel values range over -1 .. MaxPix: negative, zero and positive.
PixSets == (SUBSET (-1..MaxPix)) \ {{}}

\* What an unassigned row of np.empty may hold in each column.
Garbage == {0, MaxPix + 2}

GarbageRows(rows) == [rows -> Garbage \X Garbage]

DefaultArgs ==
    [angle |-> "090", tau |-> "1e0", wave |-> "000.53",
     stau |-> FALSE, nphot |-> FALSE, mscat |-> FALSE, econs |-> FALSE,
     nz |-> FALSE, wr |-> FALSE, minfs |-> FALSE, eps |-> FALSE, png |-> FALSE]

\* Sweeps: every choice on the three axes and of the two output flags, on the
\* two-model set of --mscat.
SweepArgs ==
    {a \in ArgsSpace : a.mscat /\ ~a.stau /\ ~a.nphot /\ ~a.econs /\ ~a.nz
                       /\ ~a.wr /\ ~a.minfs}

SweepImages == {Image(<<300, 300>>, {-1, 0, 1, 2, 3}), Image(<<600, 600>>, {0})}

Init == InitWith(SweepArgs)

Next ==
    \/ Resolve
    \/ \E present \in SUBSET (1..Len(imodnames)) : Filter(present)
    \/ SetupFigure
    \/ \E im \in SweepImages : LoadImage(im)
    \/ \E garb \in GarbageRows((1..Len(filenames)) \ DOMAIN minmax_vals),
          rejects \in BOOLEAN : Render(garb, rejects)
    \/ Output
    \/ Close
    \/ Finish

Spec == Init /\ [][Next]_vars

\* One combination (the default axes) under every assignment of the seven
\* mode flags; every file holds the same well-formed image.
GridArgs ==
    {a \in ArgsSpace : a.angle = DefaultArgs.angle /\ a.tau = DefaultArgs.tau
                       /\ a.wave = DefaultArgs.wave /\ ~a.eps /\ ~a.png}

GridImages == {Image(<<300, 300>>, 0..MaxPix)}

InitGrid == InitWith(GridArgs)

NextGrid ==
    \/ Resolve
    \/ \E present \in SUBSET (1..Len(imodnames)) : Filter(present)
    \/ SetupFigure
    \/ \E im \in GridImages : LoadImage(im)
    \/ \E garb \in GarbageRows((1..Len(filenames)) \ DOMAIN minmax_vals),
          rejects \in BOOLEAN : Render(garb, rejects)
    \/ Output
    \/ Close
    \/ Finish

SpecGrid == InitGrid /\ [][NextGrid]_vars

\* One combination of the default model set with at most MaxLoad files on
\* disk, holding images of every shape with and without usable pixels.
MaxLoad == 2

FewPix == {{0}, -1..MaxPix, {0, MaxPix - 1, MaxPix, MaxPix + 1}}

ShapedImages == {Image(sh, px) : sh \in Shapes, px \in FewPix}

InitImage == InitWith({DefaultArgs})

NextImage ==
    \/ Resolve
    \/ \E present \in {S \in SUBSET (1..Len(imodnames)) : Cardinality(S) <= MaxLoad} :
          Filter(present)
    \/ SetupFigure
    \/ \E im \in ShapedImages : LoadImage(im)
    \/ \E garb \in GarbageRows((1..Len(filenames)) \ DOMAIN minmax_vals),
          rejects \in BOOLEAN : Render(garb, rejects)
    \/ Output
    \/ Close
    \/ Finish

SpecImage == InitImage /\ [][NextImage]_vars

\* One combination of the default model set with at most one file on disk,
\* holding any set of pixel values in any shape.
AnyImages == {Image(sh, px) : sh \in Shapes, px \in PixSets}

InitRange == InitWith({DefaultArgs})

NextRange ==
    \/ Resolve
    \/ \E present \in {S \in SUBSET (1..Len(imodnames)) : Cardinality(S) <= 1} :
          Filter(present)
    \/ SetupFigure
    \/ \E im \in AnyImages : LoadImage(im)
    \/ \E garb \in GarbageRows((1..Len(filenames)) \ DOMAIN minmax_vals),
          rejects \in BOOLEAN : Render(garb, rejects)
    \/ Output
    \/ Close
    \/ Finish

SpecRange == InitRange /\ [][NextRange]_vars

\* ------------------------------------------------------------------------
\* Properties
\* ------------------------------------------------------------------------

\* Number of plot_imagegrid calls that ran to their end.
Returned ==
    IF pc \in {"loop", "done"} THEN Len(calls)
    ELSE IF pc = "main" THEN 0
    ELSE Len(calls) - 1

\* An image has a usable pixel: one that is positive and below another one.
Usable(pix) == {p \in pix : 0 < p /\ \E q \in pix : p < q}

\* C1: when plot_imagegrid finds none of the files of the current
\* combination, the process ends at once with status 0 after printing the
\* diagnostic and the names: no figure is created, nothing is saved or shown
\* for that combination, and from then on nothing happens any more (no later
\* combination is attempted).
C1_ExitOnNoFiles ==
    [][/\ (pc = "loop" /\ Len(calls') = Len(calls) + 1 /\ isfile' = {}) =>
            /\ pc' = "exited"
            /\ exit_code' = "0"
            /\ stdout' = <<"no files present", ifilenames'>>
            /\ figs' = {} /\ nfigs' = nfigs
            /\ saved' = saved /\ shown' = shown
       /\ (pc = "exited") => UNCHANGED vars]_vars

\* An exit in the middle of a sweep: earlier combinations were rendered and
\* saved, later ones remain.
C1_Witness ==
    /\ pc = "exited"
    /\ exit_code = "0"
    /\ isfile = {}
    /\ Len(calls) > 1
    /\ saved # <<>>
    /\ Len(calls) < Len(angles) * Len(taus) * Len(waves)

\* C2: the filtering loop keeps exactly the files that exist, in their
\* original order, with displaynames and fileindxs in lockstep with
\* filenames; as many panels are created, loaded and titled as files exist,
\* and a call with a missing file goes on to the figure without raising.
C2_FilterLockstep ==
    ifilenames # <<>> =>
        /\ Len(filenames) = Cardinality(isfile)
        /\ Len(displaynames) = Cardinality(isfile)
        /\ Len(fileindxs) = Cardinality(isfile)
        /\ {fileindxs[k] + 1 : k \in DOMAIN fileindxs} = isfile
        /\ \A k \in DOMAIN filenames :
              /\ filenames[k] = ifilenames[fileindxs[k] + 1]
              /\ displaynames[k] = moddisplaynames[fileindxs[k] + 1]
        /\ \A k, l \in DOMAIN fileindxs : k < l => fileindxs[k] < fileindxs[l]
        /\ (isfile # {} /\ fig = 0) => (pc = "setup" /\ exit_code = "none")
        /\ pc \in {"load", "output", "close"} => Len(ax) = Cardinality(isfile)
        /\ pc \in {"output", "close"} =>
              /\ titles = displaynames
              /\ Len(all_images.images) = Cardinality(isfile)

\* Three of the seven default files exist, with gaps before, between and
\* after them, and the figure is drawn.
C2_Witness ==
    /\ pc = "output"
    /\ Len(ifilenames) = 7
    /\ isfile = {2, 4, 7}
    /\ fileindxs = <<1, 3, 6>>
    /\ displaynames = <<"DART-ray", "Hyperion", "TRADING">>
    /\ Len(ax) = 3

\* Index in the original model list of the model whose file is filenames[k].
OrigIndex(k) == CHOOSE j \in 0..(Len(ifilenames) - 1) : ifilenames[j + 1] = filenames[k]

\* C3 as stated: the panel of original index i is at row i mod 3, column
\* i div 3.
C3_ColumnMajorCell ==
    \A k \in DOMAIN ax :
        /\ ax[k].row = OrigIndex(k) % 3
        /\ ax[k].col = OrigIndex(k) \div 3

\* C3: the panel of the model whose original index is i is at row i div 3,
\* column i mod 3 of the grid, computed from the original index, so that the
\* cell of a missing file stays empty.
C3_RowMajorCell ==
    /\ \A k \in DOMAIN ax :
          /\ ax[k].row = OrigIndex(k) \div 3
          /\ ax[k].col = OrigIndex(k) % 3
    /\ \A j \in 1..Len(ifilenames) :
          j \notin isfile =>
              ~ \E k \in DOMAIN ax : ax[k] = [row |-> (j - 1) \div 3, col |-> (j - 1) % 3]

\* Files 1 and 5 (0-based) exist: their panels sit at (0, 1) and (1, 2).
C3_Witness ==
    /\ pc = "output"
    /\ fileindxs = <<1, 5>>
    /\ ax = <<[row |-> 0, col |-> 1], [row |-> 1, col |-> 2]>>

\* Files that the flags ask for, for the combination c = (angle, tau, wave).
FilesFor(c) ==
    LET base == "slab_t" \o c[2] \o "_i" \o c[1] \o "_w" \o c[3] \o "_image_comp"
    IN IF args.png THEN <<base \o ".png", base \o "_small.png">>
       ELSE IF args.eps /\ ~args.png THEN <<base \o ".eps">>
       ELSE <<>>

RECURSIVE FilesUpTo(_)
FilesUpTo(n) == IF n = 0 THEN <<>> ELSE FilesUpTo(n - 1) \o FilesFor(calls[n])

\* C4: every rendered combination writes, with save_png, exactly
\* <name>.png and <name>_small.png and no .eps even if save_eps is set; with
\* save_eps alone exactly <name>.eps; with neither flag nothing, the figure
\* being shown instead (name = slab_t<tau>_i<angle>_w<wave>_image_comp).
C4_OutputFiles ==
    /\ saved = FilesUpTo(Returned + (IF pc = "close" THEN 1 ELSE 0))
    /\ shown = IF args.png \/ args.eps THEN 0
               ELSE Returned + (IF pc = "close" THEN 1 ELSE 0)

\* A finished sweep with both flags set: two files per combination.
C4_Witness ==
    /\ pc = "done"
    /\ args.png /\ args.eps
    /\ Len(calls) > 1
    /\ Len(saved) = 2 * Len(calls)
    /\ saved[1] = "slab_t1e-2_i090_w000.15_image_comp.png"
    /\ saved[2] = "slab_t1e-2_i090_w000.15_image_comp_small.png"

\* C5: at most one figure is open at any time; the figure of a combination
\* is closed before the next combination starts, whatever the output path,
\* and none is open when the program completes or exits for want of files.
C5_FigureReleased ==
    /\ Cardinality(figs) <= 1
    /\ pc \in {"main", "loop", "setup", "done", "exited"} => figs = {}
    /\ pc \in {"load", "output", "close"} => (figs = {fig} /\ fig = nfigs)

\* A finished interactive sweep: several figures were created, none is open.
C5_Witness ==
    /\ pc = "done"
    /\ nfigs > 1
    /\ shown = nfigs
    /\ figs = {}

\* C6: the range recorded for an image is the minimum and the maximum of
\* its pixels that are strictly positive and strictly below its maximum;
\* zero, negative and maximal pixels do not count, and an image without such
\* a pixel gets no range.
C6_RangeOfUsablePixels ==
    \A k \in DOMAIN all_images.images :
        LET ok == Usable(all_images.images[k].pix)
        IN IF ok = {}
           THEN k \notin DOMAIN minmax_vals /\ k \in nopos
           ELSE /\ k \in DOMAIN minmax_vals
                /\ minmax_vals[k][1] \in ok
                /\ minmax_vals[k][2] \in ok
                /\ \A v \in ok : minmax_vals[k][1] <= v /\ v <= minmax_vals[k][2]

\* An image with a negative, a zero, two usable and a maximal pixel.
C6_Witness ==
    \E k \in DOMAIN all_images.images :
        /\ all_images.images[k].pix = {-1, 0, 1, 2, 3}
        /\ k \in DOMAIN minmax_vals
        /\ minmax_vals[k] = <<1, 2>>

\* Positions of the images that have a usable pixel.
UsableRows == {k \in DOMAIN all_images.images : Usable(all_images.images[k].pix) # {}}

\* C7: the shared range is the median of the minimums and the median of the
\* maximums of exactly the images that have a usable pixel (nan when there
\* is none); nothing else enters it.
C7_RangeOverUsableOnly ==
    pc \in {"output", "close"} =>
        IF UsableRows = {} THEN plot_minmax.nan
        ELSE /\ ~plot_minmax.nan
             /\ plot_minmax.vmin2 =
                    Median2(Pick([k \in 1..Len(filenames) |->
                                     IF k \in UsableRows
                                     THEN SetMin(Usable(all_images.images[k].pix))
                                     ELSE 0], UsableRows, 1))
             /\ plot_minmax.vmax2 =
                    Median2(Pick([k \in 1..Len(filenames) |->
                                     IF k \in UsableRows
                                     THEN SetMax(Usable(all_images.images[k].pix))
                                     ELSE 0], UsableRows, 1))

FlagOrder == <<"stau", "nphot", "mscat", "econs", "nz", "wr", "minfs">>

\* The first set flag in the documented order, "default" when none is set.
FirstFlag ==
    IF \E k \in DOMAIN FlagOrder : args[FlagOrder[k]]
    THEN FlagOrder[SetMin({k \in DOMAIN FlagOrder : args[FlagOrder[k]]})]
    ELSE "default"

DocumentedCount ==
    [default |-> 7, stau |-> 7, nphot |-> 5, mscat |-> 2, econs |-> 7,
     nz |-> 6, wr |-> 6, minfs |-> 7]

DocumentedHead ==
    [default |-> <<"CRT", "crt/crt_slab_eff">>,
     stau |-> <<"DIRTY (Nz=400)", "dirty_stau/dirty_stau_0.00250_slab_eff">>,
     nphot |-> <<"DIRTY (N=3.2e7)", "dirty_nphot/dirty_nphot_3.2e7_slab_eff">>,
     mscat |-> <<"DIRTY (mscat=5)", "dirty_mscat/dirty_mscat_5_slab_eff">>,
     econs |-> <<"DIRTY (econs=0.001)", "dirty_econs/dirty_econs_0.001_slab_eff">>,
     nz |-> <<"SKIRT (Nz=400)", "skirtnz/skirtnz400_slab_eff">>,
     wr |-> <<"SKIRT (wr=1e8)", "skirtwr/skirtwr1e8_slab_eff">>,
     minfs |-> <<"SKIRT (minfs=1)", "skirtminfs/skirtminfs001wr1e7_slab_eff">>]

\* C8: whatever flags are set, the model set of the first set flag in the
\* order stau, nphot, mscat, econs, nz, wr, minfs is selected (the default
\* set when none is), and its prefixes and labels both have the documented
\* length.
C8_FirstFlagWins ==
    pc # "main" =>
        /\ Len(imodnames) = DocumentedCount[FirstFlag]
        /\ Len(moddisplaynames) = DocumentedCount[FirstFlag]
        /\ moddisplaynames[1] = DocumentedHead[FirstFlag][1]
        /\ imodnames[1] = DocumentedHead[FirstFlag][2]

\* nphot and minfs set together, stau not: the five nphot models.
C8_Witness ==
    /\ pc = "loop"
    /\ args.nphot /\ args.minfs /\ args.econs /\ ~args.stau
    /\ Len(imodnames) = 5
    /\ moddisplaynames[5] = "DIRTY (N=3.2e5)"

\* The cross product of the three lists, angle outermost, wave innermost.
CrossSeq ==
    LET T == Len(taus)
        W == Len(waves)
    IN [n \in 1..(Len(angles) * T * W) |->
           <<angles[((n - 1) \div (T * W)) + 1],
             taus[(((n - 1) \div W) % T) + 1],
             waves[((n - 1) % W) + 1]>>]

WindowOfSize(lead) ==
    IF lead = 300 THEN [r0 |-> 9, r1 |-> 260, c0 |-> 45, c1 |-> 255]
    ELSE [r0 |-> 19, r1 |-> 520, c0 |-> 90, c1 |-> 510]

\* C10 as stated: the window of every image, rotated or not, is the one of
\* the leading size of the array as read, before the rotation.
C10_WindowBySizeAsRead ==
    \A k \in DOMAIN raw : windows[k] = WindowOfSize(raw[k].rows)

\* C10: the window of every image is the one of the leading size of the
\* array after the rotation and before the crop: the number of rows as read,
\* except for 'CRT' and 'SOC', the only labels rotated, for which it is the
\* number of columns as read; the stored image is that window of the
\* rotated array.
C10_WindowBySizeAfterRotation ==
    \A k \in DOMAIN raw :
        LET turned == displaynames[k] \in {"CRT", "SOC"}
            lead == IF turned THEN raw[k].cols ELSE raw[k].rows
            width == IF turned THEN raw[k].rows ELSE raw[k].cols
            w == WindowOfSize(lead)
        IN /\ windows[k] = w
           /\ k \in DOMAIN all_images.images =>
                 /\ all_images.images[k].rows = w.r1 - w.r0
                 /\ all_images.images[k].cols =
                        (IF width < w.c1 THEN width ELSE w.c1) - w.c0

\* A 'CRT' array of 300 rows and 600 columns is cropped with the 600 window.
C10_Witness ==
    \E k \in DOMAIN raw :
        /\ displaynames[k] = "CRT"
        /\ raw[k].rows = 300 /\ raw[k].cols = 600
        /\ windows[k] = [r0 |-> 19, r1 |-> 520, c0 |-> 90, c1 |-> 510]
        /\ k \in DOMAIN all_images.images

====
